---- MODULE Spec2Model ----
(***************************************************************************)
(* A model of ycmd's Dart completer (ycmd/completers/dart/                 *)
(* dart_completer.py): the AnalysisService that speaks a line-delimited    *)
(* JSON protocol with the analysis-server child process, and the           *)
(* DartCompleter facade built on it.                                       *)
(*                                                                         *)
(* A JSON object is a TLA+ record whose DOMAIN is the object's key set, so *)
(* that `"id" in response` is `"id" \in DOMAIN response`.  A line that     *)
(* json.loads rejects is the record [malformed |-> TRUE].  A request id is *)
(* the decimal string str(n), modelled as the sequence of its digits.      *)
(***************************************************************************)
EXTENDS Integers, Sequences, FiniteSets, TLC

\* ------------------------------------------------------------- bounds
\* Number of request ids a behaviour may allocate.
MaxRequests == 3
\* The same, where progress is checked under fairness.
MaxLiveRequests == 2
\* The same, where the child also emits stray and malformed lines.
MaxStrayRequests == 2
\* The same, where one thread registers files with the facade.
MaxFacadeRequests == 4
\* Directory levels below the top of a path.
MaxDepth == 2
\* Lines the child's output pipe may hold unread.
MaxBuf == 2
\* Stray or malformed lines the child may emit in one behaviour.
MaxNoise == 1
\* Event Messages the child emits for one streaming request.
MaxEvents == 3
\* Longest buffer contents, in bytes.
MaxLen == 3
\* Requests of the user commands and of the completion handler.
MaxCommandRequests == 2
\* Longest error report, and longest list of suggestions.
MaxErrors == 2
\* Requests of registrations made on several threads.
MaxRaceRequests == 4
\* Requests of handlers that upload a buffer, on several threads.
MaxContentRequests == 6
MaxSuggestions == 3

Threads == {1, 2}
NoThread == 0

VARIABLES
  request_id,      \* AnalysisService._request_id
  lockOwner,       \* thread holding AnalysisService._lock, or NoThread
  lockDepth,       \* recursion level of the RLock
  alive,           \* the child process is running
  kills,           \* calls of Kill() so far: 0, 1, or 2 for more than one
  requests,        \* envelopes written to the child's stdin, in order
  stdout,          \* lines the child wrote that nobody has read yet
  pc,              \* per thread: position in the code
  kind,            \* per thread: "single" (_SendRequest) or "stream"
  method,          \* per thread: method of the request being sent
  ret,             \* per thread: where the caller of the service continues
  req,             \* per thread: local request_id of _SendRequest
  result_id,       \* per thread: local result_id of the streaming wait
  results,         \* per thread: local results accumulator
  outcome,         \* per thread: how the last call ended
  afterKill,       \* per thread: the current call was issued after Kill()
  overlapped,      \* the latest calls of the threads overlap in time
  limit,           \* request ids this behaviour may allocate
  answered,        \* child: request numbers it has answered
  evCount,         \* child: events emitted per streaming request
  noise,           \* child: stray and malformed lines emitted so far
  closed,          \* child: streaming requests whose isLast event is out
  firstResp,       \* history: first response line emitted per request
  markers,         \* directories that hold a pubspec.yaml
  roots,           \* DartCompleter._roots
  priority_files,  \* DartCompleter._priority_files
  filename,        \* per thread: filename of _EnsureFileInAnalysisServer
  directory,       \* per thread: directory of _EnsureFileInAnalysisServer
  r,               \* per thread: the RequestData of the handler, or NoData
  call             \* the latest call of a conversion function: name, input, value

svars == <<request_id, lockOwner, lockDepth, alive, kills, requests, stdout,
           pc, kind, method, ret, req, result_id, results, outcome,
           afterKill, overlapped, limit>>
cvars == <<answered, evCount, closed, noise, firstResp>>
fvars == <<markers, roots, priority_files, filename, directory>>
tvars == <<r, call>>
vars == <<svars, cvars, fvars, tvars>>
svars_but_pc == <<request_id, lockOwner, lockDepth, alive, kills, requests,
                  stdout, kind, method, ret, req, result_id, results, outcome,
                  afterKill, overlapped, limit>>

\* ------------------------------------------------------------ helpers
ReqNums == 1..(MaxRequests + MaxStrayRequests + MaxLiveRequests + MaxFacadeRequests)

RECURSIVE Digits(_)
Digits(n) == IF n < 10 THEN <<n>> ELSE Digits(n \div 10) \o <<n % 10>>

\* str(n) for a non-negative integer: its decimal digits.
Str(n) == Digits(n)

RECURSIVE ToInt(_)
ToInt(s) == IF Len(s) = 0 THEN 0
            ELSE 10 * ToInt(SubSeq(s, 1, Len(s) - 1)) + s[Len(s)]

RESULT_TYPE == "completion.results"

NoLine == [none |-> TRUE]
NoOutcome == [kind |-> "none"]
NoData == [none |-> TRUE]
NoCall == [fn |-> "none"]
ErrorKinds == {"error", "ioerror", "valueerror", "typeerror"}

\* ------------------------------------------------- AnalysisService, pure
\* The increment of the counter lost.
GetNextRequestId_NoIncrement(n) == n

\* _GetNextRequestId: the counter after `self._request_id += 1`.
GetNextRequestId(n) == n + 1

\* The request dictionary of _SendRequest.
Envelope(id, m, p) == [id |-> id, method |-> m, params |-> p]

\* json.loads(line) succeeds.
IsJson(line) == "malformed" \notin DOMAIN line

\* Any response line taken as the awaited one.
ResponseMatches_AnyId(response, rid) == "id" \in DOMAIN response

\* _SendRequest: ("id" in response) and (response["id"] == request_id)
ResponseMatches(response, rid) ==
  "id" \in DOMAIN response /\ response.id = rid

\* The result field looked at before the error field.
ResponseOutcome_ResultFirst(response) ==
  IF "result" \in DOMAIN response
    THEN [kind |-> "result", val |-> response.result]
    ELSE IF "error" \in DOMAIN response
      THEN [kind |-> "error", val |-> response.error]
      ELSE [kind |-> "noop"]

\* _SendRequest: what the matched response makes of the call.
ResponseOutcome(response) ==
  IF "error" \in DOMAIN response
    THEN [kind |-> "error", val |-> response.error]
    ELSE IF "result" \in DOMAIN response
      THEN [kind |-> "result", val |-> response.result]
      ELSE [kind |-> "noop"]

\* _SendRequestAndWaitForResults: the test that selects an event.
EventMatches(response, result_type, rid) ==
  /\ "event" \in DOMAIN response
  /\ response.event = result_type
  /\ response.params.id = rid

\* results.extend(params['results'])
ExtendResults(acc, params) == acc \o params.results

\* Returning on the first matching event.
StreamDone_First(params) == TRUE

\* if params['isLast']: return results
StreamDone(params) == params.isLast

\* End of file never seen: the read waits for a line for ever.
AtEOF_Blocks(isAlive, buf) == FALSE

\* readline() on the child's stdout returns '' (end of file) once the child
\* is gone and the pipe is drained; with a live child it blocks instead.
AtEOF(isAlive, buf) == ~isAlive /\ buf = <<>>

\* ------------------------------------------------------ the RLock
\* A lock that anybody may take at any time.
CanAcquire_Always(t) == TRUE

\* threading.RLock: free, or held by the thread itself.
CanAcquire(t) == lockOwner \in {NoThread, t}

\* The lock kept on leaving.
Unwind_Leak(levels) == UNCHANGED <<lockOwner, lockDepth>>

\* The lock given up altogether on leaving the innermost block.
Unwind_All(levels) == lockDepth' = 0 /\ lockOwner' = NoThread

\* Leaving `levels` nested `with self._lock` blocks.
Unwind(levels) ==
  /\ lockDepth' = lockDepth - levels
  /\ lockOwner' = IF lockDepth - levels = 0 THEN NoThread ELSE lockOwner

\* Levels of the lock a thread holds at each position.
HeldLevels(t) ==
  CASE pc[t] = "read" -> IF kind[t] = "stream" THEN 2 ELSE 1
    [] pc[t] = "stream" -> 1
    [] OTHER -> 0

\* ------------------------------------------------------ call budget
InCall(t) == pc[t] # "idle"

\* Requests a thread may still write in its current call.
PendingFrom(t, p) ==
  LET tail == IF r[t] = NoData THEN 0 ELSE 2 IN
  CASE p \in {"ens_root", "ens_add_root"} -> 2 + tail
    [] p \in {"ens_priority", "ens_add_priority"} -> 1 + tail
    [] p = "parse_update" -> 2
    [] p \in {"parse_get", "cand_get"} -> 1
    [] OTHER -> 0

PendingSends(t) ==
  CASE pc[t] = "lock" -> 1 + PendingFrom(t, ret[t])
    [] pc[t] \in {"read", "stream"} -> PendingFrom(t, ret[t])
    [] OTHER -> PendingFrom(t, pc[t])

RECURSIVE SumPending(_)
SumPending(S) ==
  IF S = {} THEN 0
  ELSE LET t == CHOOSE u \in S : TRUE IN PendingSends(t) + SumPending(S \ {t})

Budget(n) == request_id + SumPending(Threads) + n <= limit

\* ------------------------------------------------------ paths
\* A path is its components and whether it starts at "/": "/a/f.dart" is
\* [abs |-> TRUE, comps |-> <<"a", "f.dart">>], "/" is [abs |-> TRUE,
\* comps |-> <<>>] and "" is [abs |-> FALSE, comps |-> <<>>].
NoPath == [none |-> TRUE]
DirNames == {"a"}
FileNames == {"f.dart", "g.dart"}
Dirs == {[abs |-> b, comps |-> c] :
           b \in BOOLEAN, c \in UNION {[1..n -> DirNames] : n \in 0..MaxDepth}}
Files == {[abs |-> d.abs, comps |-> Append(d.comps, f)] : d \in Dirs, f \in FileNames}

\* os.path.dirname
Dirname(p) ==
  [abs |-> p.abs,
   comps |-> IF p.comps = <<>> THEN <<>> ELSE SubSeq(p.comps, 1, Len(p.comps) - 1)]

\* directory == '' or directory == '/'
IsTop(d) == d.comps = <<>>

\* os.path.exists(os.path.join(directory, "pubspec.yaml"))
HasMarker(d, m) == d \in m

\* The while loop of _EnsureFileInAnalysisServer.
RECURSIVE WalkUp(_, _)
WalkUp(d, m) ==
  IF ~HasMarker(d, m) /\ ~IsTop(d) THEN WalkUp(Dirname(d), m) ELSE d

\* The directory _EnsureFileInAnalysisServer registers for a file.
AnalysisRoot(f, m) ==
  LET d == WalkUp(Dirname(f), m) IN
  IF IsTop(d) THEN Dirname(f) ELSE d

\* The membership test forgotten.
NotIn_Always(x, seq) == TRUE

\* x not in seq
NotIn(x, seq) == \A i \in 1..Len(seq) : seq[i] # x

\* ------------------------------------------ the coordinate functions
\* Buffer contents are byte sequences; only the line feed is special.
LF == "\n"
Bytes == {"x", LF}
Buffers == UNION {[1..n -> Bytes] : n \in 0..MaxLen}

\* Python's None, returned by a function that falls off its end.
None == <<>>
\* What _ComputeOffset returns when the position is never reached.
NOT_FOUND == -1

\* The loop body shared by both scans: `curcol += 1`, and on a line feed
\* `curline += 1; curcol = 1`.  A position is <<curline, curcol>>.
Advance(byte, pos) ==
  IF byte = LF THEN <<pos[1] + 1, 1>> ELSE <<pos[1], pos[2] + 1>>

\* _ComputeLineAndColumn from the 0-based index i on, being at pos: the pair
\* once i == offset; None when the bytes run out first.
RECURSIVE ScanLineAndColumn(_, _, _, _)
ScanLineAndColumn(contents, offset, i, pos) ==
  IF i >= Len(contents) THEN None
  ELSE IF i = offset THEN pos
  ELSE ScanLineAndColumn(contents, offset, i + 1, Advance(contents[i + 1], pos))

ComputeLineAndColumn(contents, offset) ==
  ScanLineAndColumn(contents, offset, 0, <<1, 1>>)

\* The test of _ComputeOffset taken for a test of the line alone.
AtTarget_LineOnly(pos, line, col) == pos[1] = line

\* `(curline == line) and (curcol == col)`
AtTarget(pos, line, col) == pos[1] = line /\ pos[2] = col

\* _ComputeOffset from the 0-based index i on: the index of the first byte
\* at (line, col); -1 when the bytes run out first.
RECURSIVE ScanOffset(_, _, _, _, _)
ScanOffset(contents, line, col, i, pos) ==
  IF i >= Len(contents) THEN NOT_FOUND
  ELSE IF AtTarget(pos, line, col) THEN i
  ELSE ScanOffset(contents, line, col, i + 1, Advance(contents[i + 1], pos))

ComputeOffset(contents, line, col) ==
  ScanOffset(contents, line, col, 0, <<1, 1>>)

\* ------------------------------------------ the conversions of results
\* A Python function returns a value or raises.
Returned(v) == [kind |-> "value", val |-> v]
Raised(e) == [kind |-> e]

\* One turn of the loop of _GetErrorsResponseToDiagnostics, in the order of
\* evaluation: error['location'], the end position (unpacking None raises
\* TypeError), then the fields of the dictionary.
Diagnostic(contents, error) ==
  IF "location" \notin DOMAIN error THEN Raised("KeyError")
  ELSE LET location == error.location IN
    IF ~({"offset", "length"} \subseteq DOMAIN location) THEN Raised("KeyError")
    ELSE LET end == ComputeLineAndColumn(contents,
                                         location.offset + location.length) IN
      IF end = None THEN Raised("TypeError")
      ELSE IF ~({"startLine", "startColumn", "file"} \subseteq DOMAIN location)
                \/ ~({"message", "severity"} \subseteq DOMAIN error)
        THEN Raised("KeyError")
      ELSE Returned(
        [location |-> [line_num |-> location.startLine,
                       column_num |-> location.startColumn,
                       filepath |-> location.file],
         location_extent |->
           [start |-> [line_num |-> location.startLine,
                       column_num |-> location.startColumn],
            end |-> [line_num |-> end[1], column_num |-> end[2]]],
         ranges |-> <<>>,
         text |-> error.message,
         kind |-> error.severity])

\* The loop from entry i on, `result` holding the diagnostics so far: an
\* exception leaves the function and the list is lost.
RECURSIVE DiagnosticsFrom(_, _, _, _)
DiagnosticsFrom(contents, errors, i, result) ==
  IF i > Len(errors) THEN Returned(result)
  ELSE LET d == Diagnostic(contents, errors[i]) IN
       IF d.kind = "value"
         THEN DiagnosticsFrom(contents, errors, i + 1, Append(result, d.val))
         ELSE d

GetErrorsResponseToDiagnostics(contents, response) ==
  IF "errors" \notin DOMAIN response THEN Raised("KeyError")
  ELSE DiagnosticsFrom(contents, response.errors, 1, <<>>)

\* The order of list.sort taken for one that puts a suggestion before those
\* of equal relevance that came earlier.
StaysBefore_OnlyGreater(a, b) == a.relevance > b.relevance

\* list.sort(key = lambda s: -s['relevance']) is stable: an element stays
\* before a later one unless its key is greater, that is unless its
\* relevance is smaller.
StaysBefore(a, b) == ~(-a.relevance > -b.relevance)

\* The sorted list with one more element: it goes behind the last element
\* that stays before it.
Insert(sorted, s) ==
  LET before == {i \in 1..Len(sorted) : \A j \in 1..i : StaysBefore(sorted[j], s)}
      n == Cardinality(before)
  IN SubSeq(sorted, 1, n) \o <<s>> \o SubSeq(sorted, n + 1, Len(sorted))

RECURSIVE Sort(_)
Sort(suggestions) ==
  IF suggestions = <<>> THEN <<>>
  ELSE Insert(Sort(SubSeq(suggestions, 1, Len(suggestions) - 1)),
              suggestions[Len(suggestions)])

\* The entry of one suggestion.
Entry(suggestion) ==
  IF "returnType" \in DOMAIN suggestion
    THEN [insertion_text |-> suggestion.completion,
          extra_menu_info |-> suggestion.returnType]
    ELSE [insertion_text |-> suggestion.completion]

SuggestionsToCandidates(suggestions) ==
  LET sorted == Sort(suggestions) IN
  [i \in 1..Len(sorted) |-> Entry(sorted[i])]

\* -------------------------------------------------- session: the callers
\* The params dictionary holds references: json.dumps reads the facade's
\* lists when the envelope is written, under the lock.
Params(m) ==
  CASE m = "analysis.setAnalysisRoots" ->
         [included |-> roots, excluded |-> <<>>, packageRoots |-> <<>>]
    [] m = "analysis.setPriorityFiles" -> [files |-> priority_files]
    [] OTHER -> <<>>

\* The file the handlers below are called for.
HandlerFile == [abs |-> TRUE, comps |-> <<"a", "f.dart">>]

\* The params of the facade methods that take values of the handler.
RequestParams(t) ==
  CASE method[t] = "analysis.updateContent" ->
         [files |-> [name |-> r[t].filename, type |-> "add",
                     content |-> r[t].contents]]
    [] method[t] = "analysis.getErrors" /\ r[t] # NoData ->
         [file |-> r[t].filename]
    [] method[t] = "analysis.getNavigation" ->
         [file |-> r[t].filename, offset |-> r[t].offset, length |-> 1]
    [] method[t] = "analysis.getHover" ->
         [file |-> r[t].filename, offset |-> r[t].offset]
    [] method[t] = "completion.getSuggestions" /\ r[t] # NoData ->
         [file |-> r[t].filename, offset |-> r[t].offset]
    [] OTHER -> Params(method[t])

\* An exception leaves every `with self._lock` block the thread is in and
\* propagates to the host: the call is over.
Raise(t, o) ==
  /\ pc' = [pc EXCEPT ![t] = "idle"]
  /\ outcome' = [outcome EXCEPT ![t] = o]
  /\ result_id' = [result_id EXCEPT ![t] = <<>>]
  /\ results' = [results EXCEPT ![t] = <<>>]
  /\ Unwind(HeldLevels(t))

\* A caller enters GetErrors-like (_SendRequest) or GetSuggestions
\* (_SendRequestAndWaitForResults).
BeginCall(t, k, m, cont) ==
  /\ kind' = [kind EXCEPT ![t] = k]
  /\ method' = [method EXCEPT ![t] = m]
  /\ ret' = [ret EXCEPT ![t] = cont]
  /\ pc' = [pc EXCEPT ![t] = "lock"]

Call(t) ==
  /\ pc[t] = "idle"
  /\ Budget(1)
  /\ \E k \in {"single", "stream"} :
       BeginCall(t, k, IF k = "stream" THEN "completion.getSuggestions"
                                       ELSE "analysis.getErrors", "idle")
  /\ outcome' = [outcome EXCEPT ![t] = NoOutcome]
  /\ afterKill' = [afterKill EXCEPT ![t] = kills > 0]
  /\ overlapped' = \E u \in Threads \ {t} : InCall(u)
  /\ UNCHANGED <<tvars, limit, request_id, lockOwner, lockDepth, alive, kills, requests,
                 stdout, req, result_id, results, cvars, fvars>>

\* _SendRequest up to the flush: `with self._lock` (for the streaming
\* variant the outer `with` of _SendRequestAndWaitForResults and the nested
\* one), allocate the id, write the envelope.  Writing to the pipe of a dead
\* child raises IOError, unless the pipe is not torn down yet and the line
\* is lost in it.
Send(t) ==
  /\ pc[t] = "lock"
  /\ CanAcquire(t)
  /\ LET n == GetNextRequestId(request_id)
         levels == IF kind[t] = "stream" THEN 2 ELSE 1
     IN /\ request_id' = n
        /\ req' = [req EXCEPT ![t] = Str(n)]
        /\ \/ /\ requests' = Append(requests,
                                    Envelope(Str(n), method[t], RequestParams(t)))
              /\ pc' = [pc EXCEPT ![t] = "read"]
              /\ lockOwner' = t
              /\ lockDepth' = lockDepth + levels
              /\ UNCHANGED outcome
           \/ /\ ~alive
              /\ pc' = [pc EXCEPT ![t] = "idle"]
              /\ outcome' = [outcome EXCEPT ![t] = [kind |-> "ioerror"]]
              /\ UNCHANGED <<requests, lockOwner, lockDepth>>
  /\ UNCHANGED <<tvars, alive, kills, stdout, kind, method, ret, result_id, results,
                 afterKill, overlapped, limit, cvars, fvars>>

\* _SendRequest returns `value` (a result, or None for a bare {id}).
\* The streaming variant goes on with `result_id = response['id']`, which
\* raises TypeError on None and KeyError on a result without an id; any
\* other caller gets the value back.
ReturnFromSend(t, o) ==
  IF kind[t] = "stream"
    THEN IF o.kind = "result" /\ "id" \in DOMAIN o.val
           THEN /\ result_id' = [result_id EXCEPT ![t] = o.val.id]
                /\ results' = [results EXCEPT ![t] = <<>>]
                /\ pc' = [pc EXCEPT ![t] = "stream"]
                /\ Unwind(1)
                /\ UNCHANGED outcome
           ELSE Raise(t, [kind |-> "typeerror"])
    ELSE /\ pc' = [pc EXCEPT ![t] = ret[t]]
         /\ outcome' = [outcome EXCEPT ![t] = o]
         /\ Unwind(1)
         /\ UNCHANGED <<result_id, results>>

\* One turn of the `while True` loop of _SendRequest.
Read(t) ==
  /\ pc[t] = "read"
  /\ IF AtEOF(alive, stdout)
       THEN /\ Raise(t, [kind |-> "valueerror"])
            /\ UNCHANGED stdout
       ELSE /\ stdout # <<>>
            /\ stdout' = Tail(stdout)
            /\ LET response == Head(stdout) IN
               IF ~IsJson(response)
                 THEN Raise(t, [kind |-> "valueerror"])
                 ELSE IF ResponseMatches(response, req[t])
                   THEN IF ResponseOutcome(response).kind = "error"
                          THEN Raise(t, ResponseOutcome(response))
                          ELSE ReturnFromSend(t, ResponseOutcome(response))
                   ELSE UNCHANGED <<pc, outcome, lockOwner, lockDepth,
                                    result_id, results>>
  /\ UNCHANGED <<tvars, request_id, alive, kills, requests, kind, method, ret, req,
                 afterKill, overlapped, limit, cvars, fvars>>

\* One turn of the `while True` loop of _SendRequestAndWaitForResults.
StreamRead(t) ==
  /\ pc[t] = "stream"
  /\ IF AtEOF(alive, stdout)
       THEN /\ Raise(t, [kind |-> "valueerror"])
            /\ UNCHANGED stdout
       ELSE /\ stdout # <<>>
            /\ stdout' = Tail(stdout)
            /\ LET response == Head(stdout) IN
               IF ~IsJson(response)
                 THEN Raise(t, [kind |-> "valueerror"])
                 ELSE IF EventMatches(response, RESULT_TYPE, result_id[t])
                   THEN LET acc == ExtendResults(results[t], response.params) IN
                        IF StreamDone(response.params)
                          THEN /\ pc' = [pc EXCEPT ![t] = ret[t]]
                               /\ outcome' = [outcome EXCEPT ![t] =
                                                [kind |-> "results", val |-> acc]]
                               /\ result_id' = [result_id EXCEPT ![t] = <<>>]
                               /\ results' = [results EXCEPT ![t] = <<>>]
                               /\ Unwind(1)
                          ELSE /\ results' = [results EXCEPT ![t] = acc]
                               /\ UNCHANGED <<pc, outcome, lockOwner, lockDepth,
                                              result_id>>
                   ELSE UNCHANGED <<pc, outcome, lockOwner, lockDepth,
                                    result_id, results>>
  /\ UNCHANGED <<tvars, request_id, alive, kills, requests, kind, method, ret, req,
                 afterKill, overlapped, limit, cvars, fvars>>

\* Killing a process that is already dead taken for an error.
KillOutcome_RaisesWhenDead(wasKilled) ==
  IF wasKilled THEN [kind |-> "ioerror"] ELSE [kind |-> "noop"]

\* DartCompleter.Shutdown -> AnalysisService.Kill: self._process.kill().
\* Nobody waits for the child, so a second kill signals the same process
\* again and raises nothing.
KillOutcome(wasKilled) == [kind |-> "noop"]

Shutdown(t) ==
  /\ pc[t] = "idle"
  /\ kills' = IF kills < 2 THEN kills + 1 ELSE kills
  /\ alive' = FALSE
  /\ kind' = [kind EXCEPT ![t] = "kill"]
  /\ outcome' = [outcome EXCEPT ![t] = KillOutcome(kills > 0)]
  /\ UNCHANGED <<tvars, request_id, lockOwner, lockDepth, requests, stdout, pc,
                 method, ret, req, result_id, results, afterKill,
                 overlapped, limit, cvars, fvars>>

\* ------------------------------------------------------ DartCompleter
\* Where a thread goes on when _EnsureFileInAnalysisServer returns:
\* OnBufferVisit is over, OnFileReadyToParse (which holds `contents`) goes
\* on to UpdateFileContent.
AfterEnsure(t) == IF r[t] = NoData THEN "idle" ELSE "parse_update"

\* OnBufferVisit enters _EnsureFileInAnalysisServer.
EnsureCall(t, f) ==
  /\ pc[t] = "idle"
  /\ Budget(2)
  /\ filename' = [filename EXCEPT ![t] = f]
  /\ directory' = [directory EXCEPT ![t] = NoPath]
  /\ r' = [r EXCEPT ![t] = NoData]
  /\ pc' = [pc EXCEPT ![t] = "ens_root"]
  /\ kind' = [kind EXCEPT ![t] = "single"]
  /\ outcome' = [outcome EXCEPT ![t] = NoOutcome]
  /\ afterKill' = [afterKill EXCEPT ![t] = kills > 0]
  /\ overlapped' = \E u \in Threads \ {t} : InCall(u)
  /\ UNCHANGED <<call, limit, request_id, lockOwner, lockDepth, alive, kills,
                 requests, stdout, method, ret, req, result_id, results,
                 cvars, markers, roots, priority_files>>

\* The walk up to the directory with a pubspec.yaml, and
\* `if directory not in self._roots`.
EnsureRoot(t) ==
  /\ pc[t] = "ens_root"
  /\ LET d == AnalysisRoot(filename[t], markers) IN
     /\ directory' = [directory EXCEPT ![t] = d]
     /\ pc' = [pc EXCEPT ![t] = IF NotIn(d, roots) THEN "ens_add_root"
                                ELSE "ens_priority"]
  /\ UNCHANGED <<tvars, svars_but_pc, cvars, markers, roots, priority_files, filename>>

\* self._roots.append(directory); self._service.SetAnalysisRoots(...)
EnsureAddRoot(t) ==
  /\ pc[t] = "ens_add_root"
  /\ roots' = Append(roots, directory[t])
  /\ BeginCall(t, "single", "analysis.setAnalysisRoots", "ens_priority")
  /\ UNCHANGED <<tvars, limit, request_id, lockOwner, lockDepth, alive, kills,
                 requests, stdout, req, result_id, results, outcome,
                 afterKill, overlapped, cvars, markers, priority_files,
                 filename, directory>>

\* `if filename not in self._priority_files`; the function returns None
\* when the file is there already.
EnsurePriority(t) ==
  /\ pc[t] = "ens_priority"
  /\ IF NotIn(filename[t], priority_files)
       THEN /\ pc' = [pc EXCEPT ![t] = "ens_add_priority"]
            /\ UNCHANGED outcome
       ELSE /\ pc' = [pc EXCEPT ![t] = AfterEnsure(t)]
            /\ outcome' = [outcome EXCEPT ![t] = [kind |-> "noop"]]
  /\ UNCHANGED <<tvars, limit, request_id, lockOwner, lockDepth, alive, kills,
                 requests, stdout, kind, method, ret, req, result_id, results,
                 afterKill, overlapped, cvars, fvars>>

\* self._priority_files.append(filename);
\* self._service.SetPriorityFiles(...), after which the function returns.
EnsureAddPriority(t) ==
  /\ pc[t] = "ens_add_priority"
  /\ priority_files' = Append(priority_files, filename[t])
  /\ BeginCall(t, "single", "analysis.setPriorityFiles", AfterEnsure(t))
  /\ UNCHANGED <<tvars, limit, request_id, lockOwner, lockDepth, alive, kills,
                 requests, stdout, req, result_id, results, outcome,
                 afterKill, overlapped, cvars, markers, roots, filename,
                 directory>>

\* ------------------------------------- DartCompleter: the other handlers
\* RequestData.__init__: the offset is whatever _ComputeOffset returns.
RequestData(f, c, l, k) ==
  [filename |-> f, contents |-> c, line |-> l, column |-> k,
   offset |-> ComputeOffset(c, l, k)]

\* The buffers and cursor positions the handlers are called with: positions
\* of bytes, the position behind the last byte, and positions beyond the
\* lines.
HandlerBuffer == <<"x", LF, "x">>
HandlerLines == {1, 2}
HandlerColumns == {1, 2, 3}
HandlerData ==
  {RequestData(HandlerFile, HandlerBuffer, l, k) :
     l \in HandlerLines, k \in HandlerColumns}

\* A handler begins on a thread of the host.
Enter(t, data) ==
  /\ pc[t] = "idle"
  /\ r' = [r EXCEPT ![t] = data]
  /\ outcome' = [outcome EXCEPT ![t] = NoOutcome]
  /\ afterKill' = [afterKill EXCEPT ![t] = kills > 0]
  /\ overlapped' = \E u \in Threads \ {t} : InCall(u)

\* A handler goes on with its next call of the service.
Continue(t, k, m, cont) ==
  /\ BeginCall(t, k, m, cont)
  /\ UNCHANGED <<limit, request_id, lockOwner, lockDepth, alive, kills,
                 requests, stdout, req, result_id, results, outcome,
                 afterKill, overlapped, cvars, fvars, tvars>>

\* A handler returns or raises.
Leave(t, o) ==
  /\ pc' = [pc EXCEPT ![t] = "idle"]
  /\ outcome' = [outcome EXCEPT ![t] = o]
  /\ UNCHANGED <<limit, request_id, lockOwner, lockDepth, alive, kills,
                 requests, stdout, kind, method, ret, req, result_id, results,
                 afterKill, overlapped, cvars, fvars, tvars>>

\* _GoToDefinition: r = RequestData(request_data);
\* self._service.GetNavigation(r.filename, r.offset, 1)
GoToDefinition(t) ==
  /\ Budget(1)
  /\ \E data \in HandlerData : Enter(t, data)
  /\ BeginCall(t, "single", "analysis.getNavigation", "goto_ret")
  /\ UNCHANGED <<limit, request_id, lockOwner, lockDepth, alive, kills,
                 requests, stdout, req, result_id, results, cvars, fvars, call>>

\* `'targets' in result` raises TypeError on None; without targets or files
\* the command raises RuntimeError.
GoToResponse(o) ==
  IF o.kind # "result" THEN [kind |-> "typeerror"]
  ELSE IF "targets" \in DOMAIN o.val /\ "files" \in DOMAIN o.val
    THEN LET target == o.val.targets[1] IN
         [kind |-> "goto",
          val |-> [filepath |-> o.val.files[target.fileIndex + 1],
                   line_num |-> target.startLine,
                   column_num |-> target.startColumn]]
    ELSE [kind |-> "runtimeerror"]

GoToReturn(t) ==
  /\ pc[t] = "goto_ret"
  /\ Leave(t, GoToResponse(outcome[t]))

\* _GetType: r = RequestData(request_data);
\* self._service.GetHover(r.filename, r.offset)
GetType(t) ==
  /\ Budget(1)
  /\ \E data \in HandlerData : Enter(t, data)
  /\ BeginCall(t, "single", "analysis.getHover", "type_ret")
  /\ UNCHANGED <<limit, request_id, lockOwner, lockDepth, alive, kills,
                 requests, stdout, req, result_id, results, cvars, fvars, call>>

\* result['hovers'] raises on None and on a result without hovers; an empty
\* list, or a hover without a type, raises Exception('unknown type').
TypeResponse(o) ==
  IF o.kind # "result" THEN [kind |-> "typeerror"]
  ELSE IF "hovers" \notin DOMAIN o.val THEN [kind |-> "keyerror"]
  ELSE IF o.val.hovers = <<>> THEN [kind |-> "unknown type"]
  ELSE LET hover == o.val.hovers[1] IN
       IF "propagatedType" \in DOMAIN hover
         THEN [kind |-> "message", val |-> hover.propagatedType]
       ELSE IF "elementDescription" \in DOMAIN hover
         THEN [kind |-> "message", val |-> hover.elementDescription]
       ELSE [kind |-> "unknown type"]

GetTypeReturn(t) ==
  /\ pc[t] = "type_ret"
  /\ Leave(t, TypeResponse(outcome[t]))

\* ComputeCandidatesInner: r = RequestData(request_data);
\* self._service.UpdateFileContent(r.filename, r.contents)
ComputeCandidatesInner(t, data) ==
  /\ Budget(2)
  /\ Enter(t, data)
  /\ BeginCall(t, "single", "analysis.updateContent", "cand_get")
  /\ UNCHANGED <<limit, request_id, lockOwner, lockDepth, alive, kills,
                 requests, stdout, req, result_id, results, cvars, fvars, call>>

\* self._service.GetSuggestions(r.filename, r.offset)
CandidatesGet(t) ==
  /\ pc[t] = "cand_get"
  /\ Continue(t, "stream", "completion.getSuggestions", "cand_ret")

\* return self._SuggestionsToCandidates(...): the candidates made of the
\* suggestions the stream delivered.
CandidatesReturn(t) ==
  /\ pc[t] = "cand_ret"
  /\ Leave(t, [kind |-> "candidates", val |-> outcome[t].val])

\* OnFileReadyToParse: filename = request_data['filepath'];
\* self._EnsureFileInAnalysisServer(filename); contents = ...
OnFileReadyToParse(t, c) ==
  /\ pc[t] = "idle"
  /\ Budget(4)
  /\ Enter(t, [filename |-> HandlerFile, contents |-> c])
  /\ filename' = [filename EXCEPT ![t] = HandlerFile]
  /\ directory' = [directory EXCEPT ![t] = NoPath]
  /\ pc' = [pc EXCEPT ![t] = "ens_root"]
  /\ kind' = [kind EXCEPT ![t] = "single"]
  /\ UNCHANGED <<call, limit, request_id, lockOwner, lockDepth, alive, kills,
                 requests, stdout, method, ret, req, result_id, results,
                 cvars, markers, roots, priority_files>>

\* self._service.UpdateFileContent(filename, contents)
ParseUpdate(t) ==
  /\ pc[t] = "parse_update"
  /\ Continue(t, "single", "analysis.updateContent", "parse_get")

\* self._service.GetErrors(filename)
ParseGet(t) ==
  /\ pc[t] = "parse_get"
  /\ Continue(t, "single", "analysis.getErrors", "parse_ret")

\* return self._GetErrorsResponseToDiagnostics(contents, ...); response is
\* None after a bare {id}, and response['errors'] raises TypeError.
ParseResponse(t) ==
  IF outcome[t].kind # "result" THEN Raised("TypeError")
  ELSE GetErrorsResponseToDiagnostics(r[t].contents, outcome[t].val)

ParseReturn(t) ==
  /\ pc[t] = "parse_ret"
  /\ Leave(t, ParseResponse(t))

\* ------------------------------------------------------ the child process
\* The analysis server: it answers the requests it has read, in any order,
\* with {id, result}, {id, error}, both, or a bare {id}; after answering
\* completion.getSuggestions with a completion id it sends completion.results
\* events for that id, the last one with isLast; and it may send other lines.
IsStream(i) == requests[i].method = "completion.getSuggestions"

\* The completion id the server hands out for request id `s`: another
\* string than the request id itself.
CompletionId(s) == s \o <<0>>

\* What the server computed for request i: its payloads are tagged with the
\* request they answer, so that a result delivered to another caller shows.
\* The content the server holds when it reads request i: that of the last
\* analysis.updateContent before it.
RECURSIVE ContentAt(_)
ContentAt(i) ==
  IF i = 0 THEN NoData
  ELSE IF requests[i].method = "analysis.updateContent"
         THEN requests[i].params.files.content
         ELSE ContentAt(i - 1)

\* The errors it finds in that content: one at the first byte, whose message
\* quotes the content.
ErrorsFor(i) ==
  <<[location |-> [file |-> requests[i].params.file, offset |-> 0, length |-> 0,
                   startLine |-> 1, startColumn |-> 1],
     message |-> ContentAt(i), severity |-> "ERROR"]>>

ResultFor(i) ==
  CASE IsStream(i) -> [id |-> CompletionId(requests[i].id)]
    [] requests[i].method = "analysis.getNavigation" ->
         [value |-> i, files |-> <<requests[i].params.file>>,
          targets |-> <<[fileIndex |-> 0, startLine |-> 1, startColumn |-> 1]>>]
    [] requests[i].method = "analysis.getHover" ->
         [value |-> i, hovers |-> <<[propagatedType |-> "T"]>>]
    [] requests[i].method = "analysis.getErrors" /\ requests[i].params # <<>> ->
         [value |-> i, errors |-> ErrorsFor(i)]
    [] OTHER -> [value |-> i]

\* A result that names no target, or no hover.
EmptyResultsFor(i) ==
  CASE requests[i].method = "analysis.getNavigation" -> {[value |-> i]}
    [] requests[i].method = "analysis.getHover" ->
         {[value |-> i, hovers |-> <<>>]}
    [] OTHER -> {}

\* analysis.setAnalysisRoots, analysis.setPriorityFiles and
\* analysis.updateContent have no result.
IsSetter(i) ==
  requests[i].method \in {"analysis.setAnalysisRoots", "analysis.setPriorityFiles",
                          "analysis.updateContent"}

ResponsesFor(i) ==
  LET s == requests[i].id IN
  IF IsSetter(i)
    THEN {[id |-> s], [id |-> s, error |-> i]}
    ELSE {[id |-> s, result |-> ResultFor(i)],
          [id |-> s, error |-> i],
          [id |-> s, error |-> i, result |-> ResultFor(i)],
          [id |-> s]}
         \cup {[id |-> s, result |-> res] : res \in EmptyResultsFor(i)}

\* The results array of the k-th event of a stream.
EventResults(k) == <<k>>

\* Everything the server has sent for the stream of request i.
StreamOut(i) == [k \in 1..evCount[i] |-> EventResults(k)[1]]

Emit(line) ==
  /\ alive
  /\ Len(stdout) < MaxBuf
  /\ stdout' = Append(stdout, line)

ChildRespond ==
  /\ \E i \in (1..Len(requests)) \ answered :
       \E line \in ResponsesFor(i) :
         /\ Emit(line)
         /\ answered' = answered \cup {i}
         /\ firstResp' = [firstResp EXCEPT ![i] = line]
  /\ UNCHANGED <<tvars, limit, request_id, lockOwner, lockDepth, alive, kills, requests,
                 pc, kind, method, ret, req, result_id, results, outcome,
                 afterKill, overlapped, evCount, closed, noise, fvars>>

ChildEvent ==
  /\ \E i \in answered \ closed :
       /\ IsStream(i)
       /\ ResponseOutcome(firstResp[i]).kind = "result"
       /\ evCount[i] < MaxEvents
       /\ \E last \in BOOLEAN :
            /\ evCount[i] = MaxEvents - 1 => last
            /\ Emit([event |-> RESULT_TYPE,
                     params |-> [id |-> CompletionId(requests[i].id),
                                 results |-> EventResults(evCount[i] + 1),
                                 isLast |-> last]])
            /\ evCount' = [evCount EXCEPT ![i] = @ + 1]
            /\ closed' = IF last THEN closed \cup {i} ELSE closed
  /\ UNCHANGED <<tvars, limit, request_id, lockOwner, lockDepth, alive, kills, requests,
                 pc, kind, method, ret, req, result_id, results, outcome,
                 afterKill, overlapped, answered, noise, firstResp, fvars>>

\* Lines no caller is waiting for: a terminal event of a completion nobody
\* asked for, a response carrying an id that was never issued, a second
\* response to a request already answered.
StrayLines ==
       {[event |-> RESULT_TYPE,
         params |-> [id |-> <<0>>, results |-> <<0>>, isLast |-> TRUE]],
        [id |-> <<0>>, result |-> [value |-> 0]]}
  \cup {[id |-> requests[i].id, result |-> [value |-> 0]] : i \in answered}

ChildStray ==
  /\ noise < MaxNoise
  /\ \E line \in StrayLines : Emit(line)
  /\ noise' = noise + 1
  /\ UNCHANGED <<tvars, limit, request_id, lockOwner, lockDepth, alive, kills, requests,
                 pc, kind, method, ret, req, result_id, results, outcome,
                 afterKill, overlapped, answered, evCount, closed, firstResp,
                 fvars>>

\* A line that is not JSON.
ChildGarbage ==
  /\ noise < MaxNoise
  /\ Emit([malformed |-> TRUE])
  /\ noise' = noise + 1
  /\ UNCHANGED <<tvars, limit, request_id, lockOwner, lockDepth, alive, kills, requests,
                 pc, kind, method, ret, req, result_id, results, outcome,
                 afterKill, overlapped, answered, evCount, closed, firstResp,
                 fvars>>

\* The child exits on its own.
ChildExit ==
  /\ alive
  /\ alive' = FALSE
  /\ UNCHANGED <<tvars, request_id, lockOwner, lockDepth, kills, requests, stdout,
                 pc, kind, method, ret, req, result_id, results, outcome,
                 afterKill, overlapped, limit, cvars, fvars>>

\* ------------------------------------------------------ specifications

InitSession ==
  /\ request_id = 0
  /\ lockOwner = NoThread
  /\ lockDepth = 0
  /\ alive = TRUE
  /\ kills = 0
  /\ requests = <<>>
  /\ stdout = <<>>
  /\ pc = [t \in Threads |-> "idle"]
  /\ kind = [t \in Threads |-> "single"]
  /\ method = [t \in Threads |-> ""]
  /\ ret = [t \in Threads |-> "idle"]
  /\ req = [t \in Threads |-> <<>>]
  /\ result_id = [t \in Threads |-> <<>>]
  /\ results = [t \in Threads |-> <<>>]
  /\ outcome = [t \in Threads |-> NoOutcome]
  /\ afterKill = [t \in Threads |-> FALSE]
  /\ overlapped = FALSE
  /\ answered = {}
  /\ evCount = [i \in ReqNums |-> 0]
  /\ closed = {}
  /\ noise = 0
  /\ firstResp = [i \in ReqNums |-> NoLine]
  /\ roots = <<>>
  /\ priority_files = <<>>
  /\ filename = [t \in Threads |-> NoPath]
  /\ directory = [t \in Threads |-> NoPath]
  /\ r = [t \in Threads |-> NoData]
  /\ call = NoCall

Init ==
  /\ InitSession
  /\ limit = MaxRequests
  /\ markers = {}

InitStray ==
  /\ InitSession
  /\ limit = MaxStrayRequests
  /\ markers = {}

\* The session with a child that may die.
Next ==
  \/ \E t \in Threads : Call(t)
  \/ \E t \in Threads : Send(t)
  \/ \E t \in Threads : Read(t)
  \/ \E t \in Threads : StreamRead(t)
  \/ ChildRespond
  \/ ChildEvent
  \/ ChildExit
Spec == Init /\ [][Next]_vars

\* The same, with threads that also call Shutdown.
NextLive ==
  \/ \E t \in Threads : Call(t)
  \/ \E t \in Threads : Send(t)
  \/ \E t \in Threads : Read(t)
  \/ \E t \in Threads : StreamRead(t)
  \/ \E t \in Threads : Shutdown(t)
  \/ ChildRespond
  \/ ChildEvent
  \/ ChildExit

InitLive ==
  /\ InitSession
  /\ limit = MaxLiveRequests
  /\ markers = {}

\* Every thread that can run does run; the child answers what it has read
\* and finishes the streams it began, as long as it lives.
Fairness ==
  /\ \A t \in Threads : WF_vars(Send(t)) /\ WF_vars(Read(t)) /\ WF_vars(StreamRead(t))
  /\ WF_vars(ChildRespond)
  /\ WF_vars(ChildEvent)

SpecLive == InitLive /\ [][NextLive]_vars /\ Fairness

\* One thread registers files, one call after the other.
FacadeThread == 1
FacadeFiles == {f \in Files : f.abs}
FacadeMarkers == {{}, {[abs |-> TRUE, comps |-> <<"a">>]}}

InitFacade ==
  /\ InitSession
  /\ limit = MaxFacadeRequests
  /\ markers \in FacadeMarkers

NextFacade ==
  \/ \E f \in FacadeFiles : EnsureCall(FacadeThread, f)
  \/ EnsureRoot(FacadeThread)
  \/ EnsureAddRoot(FacadeThread)
  \/ EnsurePriority(FacadeThread)
  \/ EnsureAddPriority(FacadeThread)
  \/ Send(FacadeThread)
  \/ Read(FacadeThread)
  \/ ChildRespond

SpecFacade == InitFacade /\ [][NextFacade]_vars

\* One registration of any file under any placement of pubspec.yaml files.
InitRoot ==
  /\ InitSession
  /\ limit = 2
  /\ markers \in SUBSET Dirs

NextRoot ==
  \/ \E f \in Files : EnsureCall(FacadeThread, f)
  \/ EnsureRoot(FacadeThread)
  \/ EnsureAddRoot(FacadeThread)
  \/ EnsurePriority(FacadeThread)
  \/ EnsureAddPriority(FacadeThread)
  \/ Send(FacadeThread)
  \/ Read(FacadeThread)
  \/ ChildRespond

SpecRoot == InitRoot /\ [][NextRoot]_vars

\* The session with a child that also emits stray and malformed lines.
NextStray ==
  \/ \E t \in Threads : Call(t)
  \/ \E t \in Threads : Send(t)
  \/ \E t \in Threads : Read(t)
  \/ \E t \in Threads : StreamRead(t)
  \/ ChildRespond
  \/ ChildEvent
  \/ ChildStray
  \/ ChildGarbage
SpecStray == InitStray /\ [][NextStray]_vars

\* The conversion functions, each behaviour being one call of one of them on
\* any input within the bounds.
Lines == 1..(MaxLen + 1)
Columns == 1..(MaxLen + 2)

CallComputeOffset ==
  /\ call = NoCall
  /\ \E c \in Buffers, l \in Lines, k \in Columns :
       call' = [fn |-> "_ComputeOffset", contents |-> c, line |-> l, col |-> k,
                val |-> ComputeOffset(c, l, k)]
  /\ UNCHANGED <<svars, cvars, fvars, r>>

CallComputeLineAndColumn ==
  /\ call = NoCall
  /\ \E c \in Buffers :
       \E o \in 0..(Len(c) + 1) :
         call' = [fn |-> "_ComputeLineAndColumn", contents |-> c, offset |-> o,
                  val |-> ComputeLineAndColumn(c, o)]
  /\ UNCHANGED <<svars, cvars, fvars, r>>

\* Error reports of the analysis server: entries with every field, and
\* entries that lack one.
Severities == {"ERROR", "WARNING"}
Locations ==
  {[file |-> HandlerFile, offset |-> o, length |-> n,
    startLine |-> 1, startColumn |-> 1] : o \in 0..MaxLen, n \in 0..1}
ErrorEntries ==
  {[location |-> loc, message |-> "m", severity |-> sev] :
     loc \in Locations, sev \in Severities}
MalformedEntries ==
  {[message |-> "m", severity |-> "ERROR"],
   [location |-> [file |-> HandlerFile, offset |-> 0, length |-> 0,
                  startLine |-> 1, startColumn |-> 1],
    message |-> "m"]}
Reports ==
  UNION {[1..n -> ErrorEntries \cup MalformedEntries] : n \in 0..MaxErrors}

CallGetErrorsResponseToDiagnostics ==
  /\ call = NoCall
  /\ \E c \in Buffers, errors \in Reports :
       call' = [fn |-> "_GetErrorsResponseToDiagnostics", contents |-> c,
                errors |-> errors,
                val |-> GetErrorsResponseToDiagnostics(c, [errors |-> errors])]
  /\ UNCHANGED <<svars, cvars, fvars, r>>

\* Suggestions of the analysis server, with and without a return type.
Completions == {"a", "b"}
Relevances == {1, 2}
Suggestions ==
       {[completion |-> c, relevance |-> n] : c \in Completions, n \in Relevances}
  \cup {[completion |-> c, relevance |-> n, returnType |-> "T"] :
          c \in Completions, n \in Relevances}
SuggestionLists == UNION {[1..n -> Suggestions] : n \in 0..MaxSuggestions}

CallSuggestionsToCandidates ==
  /\ call = NoCall
  /\ \E suggestions \in SuggestionLists :
       call' = [fn |-> "_SuggestionsToCandidates", suggestions |-> suggestions,
                val |-> SuggestionsToCandidates(suggestions)]
  /\ UNCHANGED <<svars, cvars, fvars, r>>

InitConvert ==
  /\ InitSession
  /\ limit = 0
  /\ markers = {}

NextConvert ==
  \/ CallComputeOffset
  \/ CallComputeLineAndColumn
  \/ CallGetErrorsResponseToDiagnostics
  \/ CallSuggestionsToCandidates

SpecConvert == InitConvert /\ [][NextConvert]_vars

\* The user commands and the completion handler on one thread, one call
\* after the other.
InitCommand ==
  /\ InitSession
  /\ limit = MaxCommandRequests
  /\ markers = {}

NextCommand ==
  \/ GoToDefinition(FacadeThread)
  \/ GoToReturn(FacadeThread)
  \/ GetType(FacadeThread)
  \/ GetTypeReturn(FacadeThread)
  \/ \E data \in HandlerData : ComputeCandidatesInner(FacadeThread, data)
  \/ CandidatesGet(FacadeThread)
  \/ CandidatesReturn(FacadeThread)
  \/ Send(FacadeThread)
  \/ Read(FacadeThread)
  \/ StreamRead(FacadeThread)
  \/ ChildRespond
  \/ ChildEvent

SpecCommand == InitCommand /\ [][NextCommand]_vars

\* Buffer visits on several threads of the host at once.
RaceFiles == {f \in Files : f.abs /\ Len(f.comps) = 2}

InitRace ==
  /\ InitSession
  /\ limit = MaxRaceRequests
  /\ markers = {}

NextRace ==
  \/ \E t \in Threads : \E f \in RaceFiles : EnsureCall(t, f)
  \/ \E t \in Threads : EnsureRoot(t)
  \/ \E t \in Threads : EnsureAddRoot(t)
  \/ \E t \in Threads : EnsurePriority(t)
  \/ \E t \in Threads : EnsureAddPriority(t)
  \/ \E t \in Threads : Send(t)
  \/ \E t \in Threads : Read(t)
  \/ ChildRespond

SpecRace == InitRace /\ [][NextRace]_vars

\* Parse-ready and completion handlers for one file, each with its own
\* state of the buffer, on several threads at once.
ContentBuffers == {<<"x">>, <<"x", "x">>}
ContentData == {RequestData(HandlerFile, c, 1, 1) : c \in ContentBuffers}

InitContent ==
  /\ InitSession
  /\ limit = MaxContentRequests
  /\ markers = {}

NextContent ==
  \/ \E t \in Threads : \E c \in ContentBuffers : OnFileReadyToParse(t, c)
  \/ \E t \in Threads : EnsureRoot(t)
  \/ \E t \in Threads : EnsureAddRoot(t)
  \/ \E t \in Threads : EnsurePriority(t)
  \/ \E t \in Threads : EnsureAddPriority(t)
  \/ \E t \in Threads : ParseUpdate(t)
  \/ \E t \in Threads : ParseGet(t)
  \/ \E t \in Threads : ParseReturn(t)
  \/ \E t \in Threads : \E data \in ContentData : ComputeCandidatesInner(t, data)
  \/ \E t \in Threads : CandidatesGet(t)
  \/ \E t \in Threads : CandidatesReturn(t)
  \/ \E t \in Threads : Send(t)
  \/ \E t \in Threads : Read(t)
  \/ \E t \in Threads : StreamRead(t)
  \/ ChildRespond
  \/ ChildEvent

SpecContent == InitContent /\ [][NextContent]_vars

\* ------------------------------------------------------------ claims
\* The envelope a thread's current request went out in, if it went out.
Sent(t) == {i \in 1..Len(requests) : requests[i].id = req[t]}

Finished(t, k) == pc[t] = "idle" /\ kind[t] = k

\* A read loop takes the head of the child's output and goes on reading.
Skips(t) ==
  /\ pc[t] \in {"read", "stream"}
  /\ pc'[t] = pc[t]
  /\ stdout # <<>>
  /\ stdout' = Tail(stdout)
  /\ results'[t] = results[t]

C1_OwnResult ==
  \A t \in Threads :
    (Finished(t, "single") /\ outcome[t].kind = "result") =>
      \E i \in Sent(t) :
        /\ "result" \in DOMAIN firstResp[i]
        /\ outcome[t].val = firstResp[i].result
        /\ outcome[t].val = ResultFor(i)

C1_NoPendingDiscarded ==
  \A t \in Threads :
    Skips(t) => ~ \E u \in Threads :
                    pc[u] = "read" /\ ResponseMatches(Head(stdout), req[u])

\* C1: of concurrent SendRequest callers each returns the result of the
\* response line that carries its own request id, never the result computed
\* for another request, and no read loop discards a response line addressed
\* to a request that is still waiting for its response.
C1_NoCrossDelivery == [](C1_OwnResult) /\ [][C1_NoPendingDiscarded]_vars

\* Two calls that overlapped in time have both returned a result.
C1_Witness ==
  /\ overlapped
  /\ \A t \in Threads : Finished(t, "single") /\ outcome[t].kind = "result"
  /\ \E t, u \in Threads : req[t] # req[u]

\* C2: the ids of the envelopes written to the child are decimal strings of
\* strictly increasing integers; no two envelopes carry the same id.
C2_IdsStrictlyIncrease ==
  /\ \A i \in 1..Len(requests) : requests[i].id = Str(ToInt(requests[i].id))
  /\ \A i, j \in 1..Len(requests) :
       i < j => /\ ToInt(requests[i].id) < ToInt(requests[j].id)
                /\ requests[i].id # requests[j].id

\* A call ended in an error and a later envelope has been written.
C2_Witness ==
  \E t \in Threads :
    /\ pc[t] = "idle"
    /\ outcome[t].kind \in ErrorKinds
    /\ \E i \in Sent(t) : i < Len(requests)

\* C3: a streaming call returns the concatenation, in arrival order, of the
\* results of all matching events the child sent for it, the isLast event
\* included, and returns only once the isLast event is out and read.
C3_StreamAccumulates ==
  \A t \in Threads :
    (Finished(t, "stream") /\ outcome[t].kind = "results") =>
      \E i \in Sent(t) :
        /\ i \in closed
        /\ outcome[t].val = StreamOut(i)

\* Three events, isLast false, false, true, have been accumulated.
C3_Witness ==
  \E t \in Threads :
    /\ Finished(t, "stream")
    /\ outcome[t].kind = "results"
    /\ outcome[t].val = <<1, 2, 3>>

C4_Outcome ==
  \A t \in Threads :
    (Finished(t, "single") /\ outcome[t].kind \in {"error", "result", "noop"}) =>
      \E i \in Sent(t) :
        LET first == firstResp[i] IN
        /\ first # NoLine
        /\ IF "error" \in DOMAIN first
             THEN outcome[t].kind = "error" /\ outcome[t].val = first.error
             ELSE IF "result" \in DOMAIN first
               THEN outcome[t].kind = "result" /\ outcome[t].val = first.result
               ELSE outcome[t].kind = "noop"

C4_LockReleased ==
  /\ \A t \in Threads : pc[t] = "idle" => lockOwner # t
  /\ lockOwner = NoThread <=> lockDepth = 0

\* C4: what SendRequest makes of a call is fixed by the first response line
\* carrying the request's id: an error field fails the call with that error
\* payload even beside a result field, else a result field is returned, else
\* the call is a no-op success; and a finished call, failed or not, holds no
\* level of the session lock.
C4_FirstResponseDecides == C4_Outcome /\ C4_LockReleased

\* A call failed on a response carrying both fields, and a later call
\* returned its result.
C4_Witness ==
  \E t, u \in Threads :
    /\ Finished(t, "single") /\ outcome[t].kind = "error"
    /\ \E i \in Sent(t) : "result" \in DOMAIN firstResp[i]
    /\ Finished(u, "single") /\ outcome[u].kind = "result"
    /\ ToInt(req[t]) < ToInt(req[u])

C6_NoResultAfterShutdown ==
  \A t \in Threads :
    (pc[t] = "idle" /\ kind[t] \in {"single", "stream"} /\ afterKill[t]
       /\ outcome[t].kind # "none")
    => outcome[t].kind \in {"ioerror", "valueerror"}

C6_SecondShutdown ==
  \A t \in Threads :
    (kills > 0 /\ kind[t] # "kill" /\ kind'[t] = "kill")
    => /\ outcome'[t].kind = "noop"
       /\ UNCHANGED <<alive, pc, stdout, requests, request_id, lockOwner>>

C6_AfterShutdownEnds ==
  \A t \in Threads : (afterKill[t] /\ InCall(t)) ~> pc[t] = "idle"

\* C6: a Shutdown after the first leaves the session as it is and raises
\* nothing; a request issued after Shutdown never returns a result: it ends,
\* and it ends in an error.
C6_ShutdownIsFinal ==
  /\ [](C6_NoResultAfterShutdown)
  /\ [][C6_SecondShutdown]_vars
  /\ C6_AfterShutdownEnds

\* Kill() was called more than once, and a request issued afterwards has
\* ended in an error.
C6_Witness ==
  /\ kills = 2
  /\ \E t \in Threads :
       /\ pc[t] = "idle" /\ kind[t] \in {"single", "stream"} /\ afterKill[t]
       /\ outcome[t].kind \in {"ioerror", "valueerror"}

C7_BlockedReaderFails ==
  \A t \in Threads :
    (~alive /\ pc[t] \in {"read", "stream"} /\ stdout = <<>>)
      ~> (pc[t] = "idle" /\ outcome[t].kind \in ErrorKinds)

C7_WaitingSenderFails ==
  \A t \in Threads :
    (~alive /\ pc[t] = "lock")
      ~> (pc[t] = "idle" /\ outcome[t].kind \in ErrorKinds)

\* C7: once the child is gone, a caller blocked in a read with nothing left
\* to read ends in an error, and so does every caller that was waiting to
\* send.
C7_ChildDeathUnblocks == C7_BlockedReaderFails /\ C7_WaitingSenderFails

\* Two overlapping calls ended in errors after the child died: one had
\* written its request and got no answer, the other had been waiting.
C7_Witness ==
  /\ ~alive
  /\ overlapped
  /\ \A t \in Threads :
       /\ pc[t] = "idle" /\ kind[t] \in {"single", "stream"} /\ ~afterKill[t]
       /\ outcome[t].kind \in ErrorKinds
  /\ \E t \in Threads : Sent(t) # {} /\ Sent(t) \cap answered = {}

\* C8: with fair scheduling and a child that answers every request it reads,
\* every SendRequest call ends: it has its own response's outcome, unless
\* the child has died meanwhile; no caller stays blocked behind another.
C8_EveryCallEnds ==
  \A t \in Threads :
    (InCall(t) /\ kind[t] = "single")
      ~> (pc[t] = "idle"
            /\ (~alive \/ outcome[t].kind \in {"result", "noop", "error"}))

\* Two overlapping SendRequest calls have both ended with what the living
\* child answered.
C8_Witness ==
  /\ alive
  /\ overlapped
  /\ lockOwner = NoThread
  /\ \A t \in Threads :
       Finished(t, "single") /\ outcome[t].kind \in {"result", "noop", "error"}

\* The envelopes of one method, in the order they were written.
RECURSIVE EnvelopesOf(_, _)
EnvelopesOf(m, n) ==
  IF n = 0 THEN <<>>
  ELSE IF requests[n].method = m
         THEN Append(EnvelopesOf(m, n - 1), requests[n])
         ELSE EnvelopesOf(m, n - 1)

NoDuplicates(seq) == \A i, j \in 1..Len(seq) : i # j => seq[i] # seq[j]

RootSends == EnvelopesOf("analysis.setAnalysisRoots", Len(requests))
PrioritySends == EnvelopesOf("analysis.setPriorityFiles", Len(requests))

\* C9: with registrations made one after the other, a root (a priority
\* file) is listed once however often it is registered, setAnalysisRoots
\* (setPriorityFiles) is sent once for each entry added, and the k-th such
\* payload is the list as it stood then: its first k entries, in order.
C9_RegistrationIdempotent ==
  /\ NoDuplicates(roots)
  /\ NoDuplicates(priority_files)
  /\ \A k \in 1..Len(RootSends) :
       /\ k <= Len(roots)
       /\ RootSends[k].params.included = SubSeq(roots, 1, k)
  /\ \A k \in 1..Len(PrioritySends) :
       /\ k <= Len(priority_files)
       /\ PrioritySends[k].params.files = SubSeq(priority_files, 1, k)
  /\ pc[FacadeThread] = "idle" =>
       /\ Len(RootSends) = Len(roots)
       /\ Len(PrioritySends) = Len(priority_files)

\* Two files of one root have been registered: one setAnalysisRoots went
\* out, with the root once.
C9_Witness ==
  /\ pc[FacadeThread] = "idle"
  /\ Len(priority_files) = 2
  /\ Len(roots) = 1
  /\ Len(RootSends) = 1
  /\ RootSends[1].params.included = roots
  /\ AnalysisRoot(priority_files[1], markers) = AnalysisRoot(priority_files[2], markers)

\* The directories from a file's own directory up to the top, the top
\* included.
RECURSIVE Ancestors(_)
Ancestors(d) == IF IsTop(d) THEN {d} ELSE {d} \cup Ancestors(Dirname(d))

\* The nearest of them that holds a pubspec.yaml, else the file's directory.
NearestMarked(f, m) ==
  LET marked == {d \in Ancestors(Dirname(f)) : d \in m} IN
  IF marked = {} THEN Dirname(f)
  ELSE CHOOSE d \in marked : \A e \in marked : Len(e.comps) <= Len(d.comps)

\* C10: the root chosen for a file is the nearest directory, from the file's
\* own directory up to and including the top of the path, that holds a
\* pubspec.yaml; the file's directory is used only when none does.
C10_NearestMarkedAncestor ==
  \A t \in Threads :
    directory[t] # NoPath => directory[t] = NearestMarked(filename[t], markers)

\* The line at the head of the child's output answers no outstanding
\* request: a response whose id no caller awaits, or a terminal event of a
\* completion no caller accumulates.
Orphan(line) ==
  /\ IsJson(line)
  /\ \/ /\ "id" \in DOMAIN line
        /\ ~ \E u \in Threads : pc[u] = "read" /\ line.id = req[u]
     \/ /\ "event" \in DOMAIN line
        /\ line.params.isLast
        /\ ~ \E u \in Threads : pc[u] = "stream" /\ line.params.id = result_id[u]

C5_Step ==
  \A t \in Threads :
    (pc[t] \in {"read", "stream"} /\ stdout # <<>> /\ stdout' = Tail(stdout)
       /\ Orphan(Head(stdout)))
    => \E u \in Threads :
         pc[u] # "idle" /\ pc'[u] = "idle" /\ outcome'[u].kind \in ErrorKinds

\* C5: a read loop that reads a response or terminal event belonging to no
\* outstanding request reports a protocol violation to a caller; it never
\* just drops the line and reads on.
C5_OrphanReported == [][C5_Step]_vars

\* The position of byte i (0-based) of the contents, counted from the
\* contents themselves: one more than the line feeds before it, and one more
\* than the bytes since the last of them.
LineFeedsBefore(contents, i) == {j \in 1..i : contents[j] = LF}
PositionOf(contents, i) ==
  LET lfs == LineFeedsBefore(contents, i)
      last == IF lfs = {} THEN 0 ELSE CHOOSE j \in lfs : \A k \in lfs : k <= j
  IN <<Cardinality(lfs) + 1, i - last + 1>>
BytePositions(contents) == {PositionOf(contents, i) : i \in 0..(Len(contents) - 1)}

\* C11: for every (line, column) that is the position of a byte of the
\* contents, _ComputeLineAndColumn of the offset _ComputeOffset returned is
\* that (line, column) again.
C11_RoundTripFromPosition ==
  (call.fn = "_ComputeOffset"
     /\ <<call.line, call.col>> \in BytePositions(call.contents))
  => /\ call.val \in 0..(Len(call.contents) - 1)
     /\ ComputeLineAndColumn(call.contents, call.val) = <<call.line, call.col>>

\* A byte on the second line, behind a line feed, has been looked up.
C11_Witness ==
  /\ call.fn = "_ComputeOffset"
  /\ call.contents = <<"x", LF, "x">>
  /\ call.line = 2 /\ call.col = 1
  /\ call.val = 2

\* C12: for every offset from 0 to the length of the contents,
\* _ComputeLineAndColumn returns a pair, and _ComputeOffset of that pair is
\* the offset again.  The code returns None for offset == length.
C12_RoundTripFromOffset ==
  (call.fn = "_ComputeLineAndColumn" /\ call.offset \in 0..Len(call.contents))
  => /\ call.val # None
     /\ ComputeOffset(call.contents, call.val[1], call.val[2]) = call.offset

\* C13: a handler called with a (line, column) beyond the buffer fails, and
\* no request with an offset outside the buffer is written to the child.
\* The code sends the -1 that _ComputeOffset returned.
C13_NoSentinelOffsetSent ==
  \A i \in 1..Len(requests) :
    "offset" \in DOMAIN requests[i].params
      => requests[i].params.offset \in 0..Len(HandlerBuffer)

\* C13, the part that holds: _ComputeOffset returns -1 for every position
\* that is not the position of a byte.
C13_NotFoundIsMinusOne ==
  (call.fn = "_ComputeOffset"
     /\ <<call.line, call.col>> \notin BytePositions(call.contents))
  => call.val = NOT_FOUND

\* An entry with every field, and one that ends within the contents, the end
\* of the buffer included.
WellFormed(error) == error \in ErrorEntries
EndsWithin(contents, error) ==
  error.location.offset + error.location.length \in 0..Len(contents)
EndsBeforeEnd(contents, error) ==
  error.location.offset + error.location.length \in 0..(Len(contents) - 1)

\* The diagnostic the entry stands for: its message and severity, no ranges,
\* and an extent that ends at the position of offset + length.
DiagnosticFor(contents, error, d) ==
  LET end == PositionOf(contents, error.location.offset + error.location.length)
  IN /\ d.text = error.message
     /\ d.kind = error.severity
     /\ d.ranges = <<>>
     /\ d.location_extent.end = [line_num |-> end[1], column_num |-> end[2]]

OnePerEntry(contents, errors, v) ==
  /\ v.kind = "value"
  /\ Len(v.val) = Len(errors)
  /\ \A i \in 1..Len(errors) : DiagnosticFor(contents, errors[i], v.val[i])

\* C14: a report whose entries end within the contents (0 <= offset + length
\* <= length) gives one diagnostic per entry, in order, with the entry's
\* message and severity, no ranges and the end position of offset + length;
\* a report with a malformed entry gives no diagnostics.  The code raises
\* TypeError for an entry that ends at the end of the contents.
C14_OneDiagnosticPerEntry ==
  call.fn = "_GetErrorsResponseToDiagnostics"
  => /\ (\A i \in 1..Len(call.errors) :
            WellFormed(call.errors[i]) /\ EndsWithin(call.contents, call.errors[i]))
         => OnePerEntry(call.contents, call.errors, call.val)
     /\ (\E i \in 1..Len(call.errors) : ~WellFormed(call.errors[i]))
         => call.val.kind # "value"

\* C14, the part that holds: the same for reports whose entries end before
\* the end of the contents.
C14_EntriesBeforeEnd ==
  call.fn = "_GetErrorsResponseToDiagnostics"
  => /\ (\A i \in 1..Len(call.errors) :
            WellFormed(call.errors[i]) /\ EndsBeforeEnd(call.contents, call.errors[i]))
         => OnePerEntry(call.contents, call.errors, call.val)
     /\ (\E i \in 1..Len(call.errors) : ~WellFormed(call.errors[i]))
         => call.val.kind # "value"

\* The place of suggestion i in the answer: behind every suggestion of
\* greater relevance and every earlier one of the same relevance.
Rank(suggestions, i) ==
  1 + Cardinality({j \in 1..Len(suggestions) :
                     \/ suggestions[j].relevance > suggestions[i].relevance
                     \/ /\ suggestions[j].relevance = suggestions[i].relevance
                        /\ j < i})

\* C15: _SuggestionsToCandidates returns one entry per suggestion, by
\* descending relevance, suggestions of equal relevance in their order of
\* arrival; an entry has the completion as insertion text and the return
\* type as extra menu info exactly when the suggestion has one.
C15_RankedCandidates ==
  call.fn = "_SuggestionsToCandidates"
  => /\ Len(call.val) = Len(call.suggestions)
     /\ \A i \in 1..Len(call.suggestions) :
          LET s == call.suggestions[i]
              e == call.val[Rank(call.suggestions, i)]
          IN /\ e.insertion_text = s.completion
             /\ ("extra_menu_info" \in DOMAIN e) = ("returnType" \in DOMAIN s)
             /\ "returnType" \in DOMAIN s => e.extra_menu_info = s.returnType

\* Two suggestions of the same relevance, and a more relevant one that came
\* last, have been ranked.
C15_Witness ==
  /\ call.fn = "_SuggestionsToCandidates"
  /\ call.suggestions = <<[completion |-> "a", relevance |-> 1],
                          [completion |-> "b", relevance |-> 1, returnType |-> "T"],
                          [completion |-> "b", relevance |-> 2]>>
  /\ call.val = <<[insertion_text |-> "b"],
                  [insertion_text |-> "a"],
                  [insertion_text |-> "b", extra_menu_info |-> "T"]>>

Readers == {t \in Threads : pc[t] \in {"read", "stream"}}

\* Whoever is in a read loop holds the lock, so there is one reader at most.
C16_ReaderHoldsLock ==
  /\ \A t \in Readers : lockOwner = t /\ lockDepth >= 1
  /\ Cardinality(Readers) <= 1

\* A line is taken from the child's output, and an envelope is written, by
\* the thread that holds the lock.
C16_StepsUnderLock ==
  /\ (stdout # <<>> /\ stdout' = Tail(stdout))
       => (lockOwner # NoThread /\ lockOwner \in Readers)
  /\ Len(requests') > Len(requests)
       => (lockOwner' # NoThread /\ pc'[lockOwner'] = "read"
             /\ lockOwner \in {NoThread, lockOwner'})

\* C16: at most one thread reads the child's output at any time: a thread
\* reads a line only while it holds the session lock, and the write of a
\* request and the reads for it happen under that lock.
C16_OneReader == [](C16_ReaderHoldsLock) /\ [][C16_StepsUnderLock]_vars

\* A thread reads the events of its stream, holding the lock, while the
\* other one waits for the lock.
C16_Witness ==
  \E t, u \in Threads :
    /\ pc[t] = "stream" /\ results[t] # <<>>
    /\ pc[u] = "lock"
    /\ lockOwner = t

\* Only the request written last can be waiting for its resolution.
C17_OnlyLastOutstanding ==
  \A t \in Readers :
    /\ requests # <<>>
    /\ req[t] = requests[Len(requests)].id

\* An envelope is written when no request is waiting for its resolution.
C17_WriteAfterResolution ==
  Len(requests') > Len(requests) => Readers = {}

\* C17: at most one request is outstanding: the envelope of the next
\* request is written only after the one before has been resolved (response
\* read, and for a stream the isLast event) or has failed.
C17_OneOutstanding ==
  [](C17_OnlyLastOutstanding) /\ [][C17_WriteAfterResolution]_vars

\* A thread that called while the other one's stream was running has
\* written its request after that stream ended.
C17_Witness ==
  \E t, u \in Threads :
    /\ overlapped
    /\ pc[t] = "idle" /\ outcome[t].kind = "results" /\ req[t] = Str(1)
    /\ pc[u] = "read" /\ req[u] = Str(2)
    /\ Len(requests) = 2

\* C18: with registrations running on several threads, the roots and the
\* priority files hold no entry twice and no setAnalysisRoots or
\* setPriorityFiles payload holds one twice.  In the code the test `not in`
\* and the append are not one step, and two threads can both pass the test.
C18_NoDuplicateUnderRace ==
  /\ NoDuplicates(roots)
  /\ NoDuplicates(priority_files)
  /\ \A k \in 1..Len(RootSends) : NoDuplicates(RootSends[k].params.included)
  /\ \A k \in 1..Len(PrioritySends) : NoDuplicates(PrioritySends[k].params.files)

\* The requests of method m that carried entry x and that the child answered
\* without an error.
Acknowledged(m, field, x) ==
  {i \in answered :
     /\ requests[i].method = m
     /\ \E k \in 1..Len(requests[i].params[field]) : requests[i].params[field][k] = x
     /\ "error" \notin DOMAIN firstResp[i]}

\* C19: once the registrations are over, every root (priority file) on the
\* facade's list has gone to the child in a setAnalysisRoots
\* (setPriorityFiles) request that the child acknowledged.  The code appends
\* before it sends, and keeps the entry when the send fails.
C19_RegisteredMeansDelivered ==
  pc[FacadeThread] = "idle"
  => /\ \A k \in 1..Len(roots) :
          Acknowledged("analysis.setAnalysisRoots", "included", roots[k]) # {}
     /\ \A k \in 1..Len(priority_files) :
          Acknowledged("analysis.setPriorityFiles", "files", priority_files[k]) # {}

\* The threads that wait for the errors or the suggestions of their buffer.
Asking ==
  {t \in Readers :
     /\ r[t] # NoData
     /\ method[t] \in {"analysis.getErrors", "completion.getSuggestions"}}

\* C20: the errors or the suggestions a handler waits for are computed for
\* the content this handler uploaded: no other handler's updateContent
\* reaches the child between its updateContent and its getErrors or
\* getSuggestions.  The code gives up the lock between the two requests.
C20_OwnContentAnalysed ==
  \A t \in Asking : ContentAt(Len(requests)) = r[t].contents
====
